---- MODULE Spec2Model ----
(***************************************************************************)
(* TradeMaster: one run of TradeMaster.place_scheduled_orders (main.py)    *)
(* over the watchlist, with ZerodhaOrderManager.place_order and its margin *)
(* helpers (order_manager.py) and the notifications it hands to            *)
(* NotificationManager (notification_manager.py).                          *)
(*                                                                         *)
(* The broker (kite) is the environment: every broker call either returns  *)
(* a value drawn from a small set or raises.  Wall-clock timestamps and    *)
(* log lines are not modelled.                                             *)
(***************************************************************************)
EXTENDS Integers, Sequences, FiniteSets, TLC

\* ------------------------------------------------------------------ bounds
MaxRows == 2          \* rows in stocks.csv
MaxRetry == 2         \* largest RETRY_ATTEMPTS tried (the default is 3)

RetryBudgets == (-1) .. MaxRetry     \* int(os.getenv('RETRY_ATTEMPTS', 3))
RetryDelays == {2, 5}                \* int(os.getenv('RETRY_DELAY_SECONDS', 2))
Totals == {2}                        \* 'total' of an order_margins response
LastPrices == {3}                    \* 'last_price' of an ltp response
Cash == {1, 2, 3}                    \* equity.available.cash of margins()
BrokerErrors == {"NetworkException", "InputException"}

\* --------------------------------------------------------- watchlist rows
SymNfoReliance == <<"N", "F", "O", ":", "R", "E", "L", "I", "A", "N", "C", "E">>
SymInfy == <<"I", "N", "F", "Y">>
DefaultExchange == <<"N", "S", "E">>

\* a cell of the DataFrame: a number, a text that is no number, or NaN
Num(v) == [kind |-> "num", v |-> v]
Text == [kind |-> "text", v |-> 0]
NaN == [kind |-> "nan", v |-> 0]

StockRows ==
    { [trading_symbol |-> SymNfoReliance, quantity |-> Num(1),
       order_type |-> "MARKET", limit_price |-> NaN, is_active |-> TRUE],
      [trading_symbol |-> SymInfy, quantity |-> Num(2),
       order_type |-> "LIMIT", limit_price |-> Num(2), is_active |-> TRUE],
      [trading_symbol |-> SymInfy, quantity |-> Num(1),
       order_type |-> "MARKET", limit_price |-> NaN, is_active |-> FALSE],
      [trading_symbol |-> SymInfy, quantity |-> Text,
       order_type |-> "MARKET", limit_price |-> NaN, is_active |-> TRUE],
      [trading_symbol |-> SymNfoReliance, quantity |-> Num(1),
       order_type |-> "LIMIT", limit_price |-> Text, is_active |-> TRUE] }

Watchlists == UNION { [1 .. n -> StockRows] : n \in 0 .. MaxRows }

\* ------------------------------------------------------------------ state
VARIABLES
    pc,                    \* position in place_scheduled_orders / place_order
    is_weekday,            \* current_time.weekday() < 5
    has_columns,           \* stocks.csv has every required column
    csv_rows,              \* the rows of stocks.csv
    RETRY_ATTEMPTS,        \* environment setting
    RETRY_DELAY_SECONDS,   \* environment setting
    load_calls,            \* calls of load_stock_config
    stock_config,          \* indexes of the active rows, in file order
    i,                     \* position of the for loop in stock_config
    all_results,           \* outcomes appended so far
    notifications,         \* send_notification calls so far
    next_order_id,         \* broker: the id its next accepted order gets
    retry_attempts,        \* place_order's parameter in the current call
    order_params,          \* <<>> or <<the request built by this call>>
    margin_required,       \* <<>> or <<the estimate of this attempt>>
    resp,                  \* this entry: broker responses of the latest attempt
    returned,              \* this entry: what the margin helpers returned in it
    attempt_log,           \* this entry: result of each attempt so far
    order_margins_calls,   \* this entry: calls of kite.order_margins
    margins_calls,         \* this entry: calls of kite.margins
    place_calls,           \* this entry: calls of kite.place_order
    sleep_calls            \* this entry: time.sleep durations

env == <<is_weekday, has_columns, csv_rows, RETRY_ATTEMPTS, RETRY_DELAY_SECONDS>>
batch == <<i, all_results, notifications>>
locals == <<retry_attempts, order_params, margin_required>>
mocks == <<attempt_log, order_margins_calls, margins_calls, place_calls, sleep_calls,
           resp, returned>>
vars == <<pc, env, load_calls, stock_config, batch, next_order_id, locals, mocks>>

\* ------------------------------------------------------- pure operations
SetMax(S) == CHOOSE x \in S : \A y \in S : x >= y

Quantities == { r.quantity.v : r \in StockRows }

\* float('inf'): above every finite amount the run can see
Inf == 1 + SetMax(Totals \cup Cash \cup { p * q : p \in LastPrices, q \in Quantities })

\* variant: the symbol is not split
Split_NoSplit(s) == <<s>>

\* str.split(':')
RECURSIVE Split(_)
Split(s) ==
    IF \A k \in 1 .. Len(s) : s[k] # ":"
    THEN <<s>>
    ELSE LET k == CHOOSE k \in 1 .. Len(s) :
                      s[k] = ":" /\ \A j \in 1 .. (k - 1) : s[j] # ":"
         IN  <<SubSeq(s, 1, k - 1)>> \o Split(SubSeq(s, k + 1, Len(s)))

HasColon(s) == \E k \in 1 .. Len(s) : s[k] = ":"

\* int(stock_entry['quantity']) raises ValueError unless the cell is a number
IntRaises(cell) == cell.kind # "num"

\* float(stock_entry['limit_price']) raises ValueError for a text cell
FloatRaises(cell) == cell.kind = "text"

\* lines 60-63 of place_order raise, outside its try block
ParseRaises(stock) ==
    \/ IntRaises(stock.quantity)
    \/ stock.order_type = "LIMIT" /\ FloatRaises(stock.limit_price)

\* `if limit_price` of a parsed limit price: NaN and non-zero numbers are truthy
Truthy(cell) == cell.kind = "nan" \/ (cell.kind = "num" /\ cell.v # 0)

\* variant: the price is added whatever the order type
OrderParams_AlwaysPrice(stock) ==
    LET symbol == stock.trading_symbol
        parts == Split(symbol)
        base == [tradingsymbol |-> parts[Len(parts)],
                 exchange |-> IF HasColon(symbol) THEN parts[1] ELSE DefaultExchange,
                 transaction_type |-> "BUY",
                 quantity |-> stock.quantity.v,
                 product |-> "CNC",
                 order_type |-> stock.order_type]
    IN  IF Truthy(stock.limit_price)
        THEN base @@ [price |-> stock.limit_price]
        ELSE base

\* the order_params dict of place_order
OrderParams(stock) ==
    LET symbol == stock.trading_symbol
        parts == Split(symbol)
        base == [tradingsymbol |-> parts[Len(parts)],
                 exchange |-> IF HasColon(symbol) THEN parts[1] ELSE DefaultExchange,
                 transaction_type |-> "BUY",
                 quantity |-> stock.quantity.v,
                 product |-> "CNC",
                 order_type |-> stock.order_type]
    IN  IF stock.order_type = "LIMIT" /\ Truthy(stock.limit_price)
        THEN base @@ [price |-> stock.limit_price]
        ELSE base

\* f"{exchange}:{symbol}"
InstrumentKey(params) == params.exchange \o <<":">> \o params.tradingsymbol

\* broker responses
NoResp == [status |-> "none", v |-> 0]
Threw == [status |-> "throw", v |-> 0]
Ok(v) == [status |-> "ok", v |-> v]
NoTotal == [status |-> "no_total", v |-> 0]

OrderMarginsResponses == { Ok(t) : t \in Totals } \cup {NoTotal, Threw}
LtpResponses == { Ok(p) : p \in LastPrices } \cup {Threw}
MarginsResponses == { Ok(c) : c \in Cash } \cup {Threw}

\* kite.place_order raised the exception called name
Raised(name) == [status |-> "throw", v |-> 0, error |-> name]

\* nothing asked of the broker yet; ltp_key is <<>> or <<the key asked of ltp>>
NoResponses == [order_margins |-> NoResp, ltp |-> NoResp, margins |-> NoResp,
                ltp_key |-> <<>>, place |-> NoResp]
NothingReturned == [estimate |-> <<>>, guard |-> <<>>]

\* variant: the fallback forgets the quantity
CheckMarginRequired_PriceOnly(params, om, lt) ==
    IF om.status = "ok" THEN om.v
    ELSE IF om.status = "no_total" THEN 0
    ELSE IF lt.status = "ok" THEN lt.v
    ELSE Inf

\* variant: the last fallback yields 0 instead of float('inf')
CheckMarginRequired_ZeroFallback(params, om, lt) ==
    IF om.status = "ok" THEN om.v
    ELSE IF om.status = "no_total" THEN 0
    ELSE IF lt.status = "ok" THEN lt.v * params.quantity
    ELSE 0

\* _check_margin_required: om is the order_margins response, lt the ltp
\* response (consulted only when order_margins raised)
CheckMarginRequired(params, om, lt) ==
    IF om.status = "ok" THEN om.v
    ELSE IF om.status = "no_total" THEN 0
    ELSE IF lt.status = "ok" THEN lt.v * params.quantity
    ELSE Inf

\* variant: cash equal to the estimate is refused
HasSufficientMargin_Strict(required, ac) ==
    IF ac.status = "ok" THEN ac.v > required ELSE TRUE

\* variant: a failed margins() lookup blocks the order
HasSufficientMargin_FailClosed(required, ac) ==
    IF ac.status = "ok" THEN ac.v >= required ELSE FALSE

\* _has_sufficient_margin: ac is the margins() response
HasSufficientMargin(required, ac) ==
    IF ac.status = "ok" THEN ac.v >= required ELSE TRUE

\* variant: the budget counts attempts, not retries
RetryLeft_CountsAttempts(n) == n > 1

\* the retry test of the except block
RetryLeft(n) == n > 0

\* the ValueError raised when the guard refuses
InsufficientMargin(symbol, required) ==
    [text |-> "Insufficient margin", symbol |-> symbol, required |-> required]

BrokerError(name) == [text |-> name]

\* variant: the outcome does not carry the id the broker returned
SuccessResult_NoId(order_id, symbol) ==
    [success |-> TRUE, order_id |-> 0, symbol |-> symbol]

\* the dict returned after a placement
SuccessResult(order_id, symbol) ==
    [success |-> TRUE, order_id |-> order_id, symbol |-> symbol]

\* variant: the outcome names the exhausted budget, not the last exception
FailureResult_Generic(e, symbol) ==
    [success |-> FALSE, error |-> [text |-> "Retries exhausted"], symbol |-> symbol]

\* the dict returned when no retry is left; e is str(e)
FailureResult(e, symbol) ==
    [success |-> FALSE, error |-> e, symbol |-> symbol]

\* NotificationManager.notify_order_placed
NotifyOrderPlaced(result) ==
    [subject |-> "Order Placed", symbol |-> result.symbol,
     order_id |-> result.order_id, level |-> "SUCCESS"]

\* NotificationManager.notify_order_failed
NotifyOrderFailed(result, error_message) ==
    [subject |-> "Order Failed", symbol |-> result.symbol,
     error |-> error_message, level |-> "ERROR"]

SuccessCount(results) == Cardinality({ k \in 1 .. Len(results) : results[k].success })

\* variant: every outcome is counted as successful
SummaryNotification_AllSuccessful(results) ==
    [subject |-> "Order Placement Summary", placed |-> Len(results),
     successful |-> Len(results),
     failed |-> Len(results) - SuccessCount(results), level |-> "INFO"]

\* the summary notification
SummaryNotification(results) ==
    [subject |-> "Order Placement Summary", placed |-> Len(results),
     successful |-> SuccessCount(results),
     failed |-> Len(results) - SuccessCount(results), level |-> "INFO"]

ConfigErrorNotification ==
    [subject |-> "Stock Configuration Error", level |-> "ERROR"]

\* variant: the rows are not filtered
ActiveIndexes_All(rows, k) ==
    IF k > Len(rows) THEN <<>>
    ELSE [j \in 1 .. (Len(rows) - k + 1) |-> j + k - 1]

\* df[df['is_active']]: the indexes of the active rows, in order
RECURSIVE ActiveIndexes(_, _)
ActiveIndexes(rows, k) ==
    IF k > Len(rows) THEN <<>>
    ELSE (IF rows[k].is_active THEN <<k>> ELSE <<>>) \o ActiveIndexes(rows, k + 1)

\* the row the for loop is at
Stock == csv_rows[stock_config[i]]

\* ------------------------------------------------------------------- Init
Init ==
    /\ pc = "start"
    /\ is_weekday \in BOOLEAN
    /\ has_columns \in BOOLEAN
    /\ csv_rows \in Watchlists
    /\ RETRY_ATTEMPTS \in RetryBudgets
    /\ RETRY_DELAY_SECONDS \in RetryDelays
    /\ load_calls = 0
    /\ stock_config = <<>>
    /\ i = 1
    /\ all_results = <<>>
    /\ notifications = <<>>
    /\ next_order_id = 1
    /\ retry_attempts = 0
    /\ order_params = <<>>
    /\ margin_required = <<>>
    /\ resp = NoResponses
    /\ returned = NothingReturned
    /\ attempt_log = <<>>
    /\ order_margins_calls = 0
    /\ margins_calls = 0
    /\ place_calls = <<>>
    /\ sleep_calls = <<>>

\* ------------------------------------------------- steps shared by actions
ClearLocals ==
    /\ retry_attempts' = 0
    /\ order_params' = <<>>
    /\ margin_required' = <<>>

\* place_order(stock, n, delay) is entered: lines 60-81
EnterPlaceOrder(stock, n) ==
    IF ParseRaises(stock)
    THEN /\ pc' = "crashed"
         /\ ClearLocals
    ELSE /\ pc' = "check_margin"
         /\ retry_attempts' = n
         /\ order_params' = <<OrderParams(stock)>>
         /\ margin_required' = <<>>

\* variant: the outcome is put at the head of all_results
ReturnResult_Prepend(result) ==
    /\ all_results' = <<result>> \o all_results
    /\ notifications' =
          Append(notifications,
                 IF result.success THEN NotifyOrderPlaced(result)
                 ELSE NotifyOrderFailed(result, result.error))
    /\ i' = i + 1
    /\ pc' = "loop"
    /\ ClearLocals

\* place_order returns result to the for loop: main.py lines 146-154
ReturnResult(result) ==
    /\ all_results' = Append(all_results, result)
    /\ notifications' =
          Append(notifications,
                 IF result.success THEN NotifyOrderPlaced(result)
                 ELSE NotifyOrderFailed(result, result.error))
    /\ i' = i + 1
    /\ pc' = "loop"
    /\ ClearLocals

\* variant: the sleep comes before the test of the budget
Except_SleepFirst(e) ==
    /\ sleep_calls' = Append(sleep_calls, RETRY_DELAY_SECONDS)
    /\ IF RetryLeft(retry_attempts)
       THEN /\ EnterPlaceOrder(Stock, retry_attempts - 1)
            /\ UNCHANGED batch
       ELSE ReturnResult(FailureResult(e, Stock.trading_symbol))

\* the except block of place_order, e is the exception caught
Except(e) ==
    IF RetryLeft(retry_attempts)
    THEN /\ sleep_calls' = Append(sleep_calls, RETRY_DELAY_SECONDS)
         /\ EnterPlaceOrder(Stock, retry_attempts - 1)
         /\ UNCHANGED batch
    ELSE /\ ReturnResult(FailureResult(e, Stock.trading_symbol))
         /\ UNCHANGED sleep_calls

\* ---------------------------------------------------------------- actions
\* variant: the weekend branch does not return
Start_NoReturn ==
    /\ pc = "start"
    /\ pc' = "load"
    /\ UNCHANGED <<env, load_calls, stock_config, batch, next_order_id, locals, mocks>>

\* place_scheduled_orders, the trading-day check
Start ==
    /\ pc = "start"
    /\ pc' = IF is_weekday THEN "load" ELSE "done"
    /\ UNCHANGED <<env, load_calls, stock_config, batch, next_order_id, locals, mocks>>

\* variant: the handler of the failure does not return
LoadStockConfig_NoReturn ==
    /\ pc = "load"
    /\ load_calls' = load_calls + 1
    /\ IF has_columns
       THEN /\ stock_config' = ActiveIndexes(csv_rows, 1)
            /\ pc' = "loop"
            /\ UNCHANGED notifications
       ELSE /\ notifications' = Append(notifications, ConfigErrorNotification)
            /\ pc' = "loop"
            /\ UNCHANGED stock_config
    /\ UNCHANGED <<env, i, all_results, next_order_id, locals, mocks>>

\* load_stock_config and the handler of its failure
LoadStockConfig ==
    /\ pc = "load"
    /\ load_calls' = load_calls + 1
    /\ IF has_columns
       THEN /\ stock_config' = ActiveIndexes(csv_rows, 1)
            /\ pc' = "loop"
            /\ UNCHANGED notifications
       ELSE /\ notifications' = Append(notifications, ConfigErrorNotification)
            /\ pc' = "done"
            /\ UNCHANGED stock_config
    /\ UNCHANGED <<env, i, all_results, next_order_id, locals, mocks>>

\* the for loop takes the next active row and calls place_order
LoopIter ==
    /\ pc = "loop"
    /\ i <= Len(stock_config)
    /\ EnterPlaceOrder(Stock, RETRY_ATTEMPTS)
    /\ attempt_log' = <<>>
    /\ order_margins_calls' = 0
    /\ margins_calls' = 0
    /\ place_calls' = <<>>
    /\ sleep_calls' = <<>>
    /\ resp' = NoResponses
    /\ returned' = NothingReturned
    /\ UNCHANGED <<env, load_calls, stock_config, batch, next_order_id>>

\* the loop is over: the summary notification
Summary ==
    /\ pc = "loop"
    /\ i > Len(stock_config)
    /\ notifications' = Append(notifications, SummaryNotification(all_results))
    /\ pc' = "done"
    /\ UNCHANGED <<env, load_calls, stock_config, i, all_results, next_order_id,
                   locals, mocks>>

\* variant: a failure of ltp leaves _check_margin_required as an exception
MarginEstimator_LtpRaises ==
    /\ pc = "check_margin"
    /\ order_margins_calls' = order_margins_calls + 1
    /\ \E om \in OrderMarginsResponses :
       \E lt \in (IF om.status = "throw" THEN LtpResponses ELSE {NoResp}) :
          /\ resp' = [order_margins |-> om, ltp |-> lt, margins |-> NoResp,
                      ltp_key |-> IF om.status = "throw"
                                  THEN <<InstrumentKey(order_params[1])>> ELSE <<>>,
                      place |-> NoResp]
          /\ IF om.status = "throw" /\ lt.status = "throw"
             THEN /\ returned' = NothingReturned
                  /\ attempt_log' = Append(attempt_log, "estimate")
                  /\ Except(BrokerError("NetworkException"))
             ELSE /\ margin_required' = <<CheckMarginRequired(order_params[1], om, lt)>>
                  /\ returned' = [estimate |-> margin_required', guard |-> <<>>]
                  /\ pc' = "has_margin"
                  /\ UNCHANGED <<batch, retry_attempts, order_params, attempt_log,
                                 sleep_calls>>
    /\ UNCHANGED <<env, load_calls, stock_config, next_order_id, margins_calls,
                   place_calls>>

\* variant: a retry reuses the estimate of the attempt before it
MarginEstimator_Cached ==
    /\ pc = "check_margin"
    /\ IF returned.estimate # <<>>
       THEN /\ margin_required' = returned.estimate
            /\ returned' = [estimate |-> returned.estimate, guard |-> <<>>]
            /\ resp' = [resp EXCEPT !.margins = NoResp, !.place = NoResp]
            /\ UNCHANGED order_margins_calls
       ELSE /\ \E om \in OrderMarginsResponses :
               \E lt \in (IF om.status = "throw" THEN LtpResponses ELSE {NoResp}) :
                  /\ margin_required' = <<CheckMarginRequired(order_params[1], om, lt)>>
                  /\ resp' = [order_margins |-> om, ltp |-> lt, margins |-> NoResp,
                              ltp_key |-> IF om.status = "throw"
                                          THEN <<InstrumentKey(order_params[1])>> ELSE <<>>,
                              place |-> NoResp]
                  /\ returned' = [estimate |-> margin_required', guard |-> <<>>]
            /\ order_margins_calls' = order_margins_calls + 1
    /\ pc' = "has_margin"
    /\ UNCHANGED <<env, load_calls, stock_config, batch, next_order_id,
                   retry_attempts, order_params, attempt_log, margins_calls,
                   place_calls, sleep_calls>>

\* margin_required = self._check_margin_required(order_params)
MarginEstimator ==
    /\ pc = "check_margin"
    /\ \E om \in OrderMarginsResponses :
       \E lt \in (IF om.status = "throw" THEN LtpResponses ELSE {NoResp}) :
          /\ margin_required' = <<CheckMarginRequired(order_params[1], om, lt)>>
          /\ resp' = [order_margins |-> om, ltp |-> lt, margins |-> NoResp,
                      ltp_key |-> IF om.status = "throw"
                                  THEN <<InstrumentKey(order_params[1])>> ELSE <<>>,
                      place |-> NoResp]
          /\ returned' = [estimate |-> margin_required', guard |-> <<>>]
    /\ order_margins_calls' = order_margins_calls + 1
    /\ pc' = "has_margin"
    /\ UNCHANGED <<env, load_calls, stock_config, batch, next_order_id,
                   retry_attempts, order_params, attempt_log, margins_calls,
                   place_calls, sleep_calls>>

\* variant: a refusal of the guard is returned at once, without a retry
MarginGuard_NoRetry ==
    /\ pc = "has_margin"
    /\ margins_calls' = margins_calls + 1
    /\ \E ac \in MarginsResponses :
          /\ resp' = [resp EXCEPT !.margins = ac]
          /\ returned' = [returned EXCEPT
                             !.guard = <<HasSufficientMargin(margin_required[1], ac)>>]
          /\ IF HasSufficientMargin(margin_required[1], ac)
             THEN /\ pc' = "kite_place"
                  /\ UNCHANGED <<batch, retry_attempts, order_params, margin_required,
                                 attempt_log, sleep_calls>>
             ELSE /\ attempt_log' = Append(attempt_log, "margin")
                  /\ ReturnResult(FailureResult(
                        InsufficientMargin(Stock.trading_symbol, margin_required[1]),
                        Stock.trading_symbol))
                  /\ UNCHANGED sleep_calls
    /\ UNCHANGED <<env, load_calls, stock_config, next_order_id,
                   order_margins_calls, place_calls>>

\* variant: a refusal of the guard is logged but not raised
MarginGuard_NoRaise ==
    /\ pc = "has_margin"
    /\ margins_calls' = margins_calls + 1
    /\ \E ac \in MarginsResponses :
          /\ resp' = [resp EXCEPT !.margins = ac]
          /\ returned' = [returned EXCEPT
                             !.guard = <<HasSufficientMargin(margin_required[1], ac)>>]
          /\ pc' = "kite_place"
          /\ UNCHANGED <<batch, retry_attempts, order_params, margin_required,
                         attempt_log, sleep_calls>>
    /\ UNCHANGED <<env, load_calls, stock_config, next_order_id,
                   order_margins_calls, place_calls>>

\* if not self._has_sufficient_margin(margin_required): raise ValueError
MarginGuard ==
    /\ pc = "has_margin"
    /\ margins_calls' = margins_calls + 1
    /\ \E ac \in MarginsResponses :
          /\ resp' = [resp EXCEPT !.margins = ac]
          /\ returned' = [returned EXCEPT
                             !.guard = <<HasSufficientMargin(margin_required[1], ac)>>]
          /\ IF HasSufficientMargin(margin_required[1], ac)
             THEN /\ pc' = "kite_place"
                  /\ UNCHANGED <<batch, retry_attempts, order_params, margin_required,
                                 attempt_log, sleep_calls>>
             ELSE /\ attempt_log' = Append(attempt_log, "margin")
                  /\ Except(InsufficientMargin(Stock.trading_symbol, margin_required[1]))
    /\ UNCHANGED <<env, load_calls, stock_config, next_order_id,
                   order_margins_calls, place_calls>>

\* variant: a placed order does not end the retries
KitePlaceOrder_NoReturn ==
    /\ pc = "kite_place"
    /\ \/ /\ place_calls' = Append(place_calls,
                                   [params |-> order_params[1], order_id |-> <<next_order_id>>])
          /\ next_order_id' = next_order_id + 1
          /\ resp' = [resp EXCEPT !.place = Ok(next_order_id)]
          /\ attempt_log' = Append(attempt_log, "ok")
          /\ IF RetryLeft(retry_attempts)
             THEN /\ sleep_calls' = Append(sleep_calls, RETRY_DELAY_SECONDS)
                  /\ EnterPlaceOrder(Stock, retry_attempts - 1)
                  /\ UNCHANGED batch
             ELSE /\ ReturnResult(SuccessResult(next_order_id, Stock.trading_symbol))
                  /\ UNCHANGED sleep_calls
       \/ \E name \in BrokerErrors :
             /\ place_calls' = Append(place_calls,
                                      [params |-> order_params[1], order_id |-> <<>>])
             /\ resp' = [resp EXCEPT !.place = Raised(name)]
             /\ attempt_log' = Append(attempt_log, "broker")
             /\ Except(BrokerError(name))
             /\ UNCHANGED next_order_id
    /\ UNCHANGED <<env, load_calls, stock_config, order_margins_calls, margins_calls,
                   returned>>

\* order_id = self.kite.place_order(variety="regular", **order_params)
KitePlaceOrder ==
    /\ pc = "kite_place"
    /\ \/ /\ place_calls' = Append(place_calls,
                                   [params |-> order_params[1], order_id |-> <<next_order_id>>])
          /\ next_order_id' = next_order_id + 1
          /\ resp' = [resp EXCEPT !.place = Ok(next_order_id)]
          /\ attempt_log' = Append(attempt_log, "ok")
          /\ ReturnResult(SuccessResult(next_order_id, Stock.trading_symbol))
          /\ UNCHANGED sleep_calls
       \/ \E name \in BrokerErrors :
             /\ place_calls' = Append(place_calls,
                                      [params |-> order_params[1], order_id |-> <<>>])
             /\ resp' = [resp EXCEPT !.place = Raised(name)]
             /\ attempt_log' = Append(attempt_log, "broker")
             /\ Except(BrokerError(name))
             /\ UNCHANGED next_order_id
    /\ UNCHANGED <<env, load_calls, stock_config, order_margins_calls, margins_calls,
                   returned>>

Next ==
    \/ Start
    \/ LoadStockConfig
    \/ LoopIter
    \/ Summary
    \/ MarginEstimator
    \/ MarginGuard
    \/ KitePlaceOrder

Spec == Init /\ [][Next]_vars

\* ------------------------------------------------- vocabulary of the claims
InAttempt == pc \in {"check_margin", "has_margin", "kite_place"}

\* place_order has returned the outcome of the entry the mocks describe
EntryReturned == pc \in {"loop", "done"} /\ attempt_log # <<>>

LastResult == all_results[Len(all_results)]
LastAttempt == attempt_log[Len(attempt_log)]

AllAttemptsFailed == \A k \in 1 .. Len(attempt_log) : attempt_log[k] # "ok"

\* the retries a budget buys: none for a budget of zero or less
Retries == IF RETRY_ATTEMPTS > 0 THEN RETRY_ATTEMPTS ELSE 0

RECURSIVE SeqSum(_)
SeqSum(q) == IF q = <<>> THEN 0 ELSE q[1] + SeqSum(Tail(q))

\* the row the mocks describe: the one being attempted or just returned
EntryAtHand == IF InAttempt THEN Stock ELSE csv_rows[stock_config[i - 1]]

IndividualNotifications ==
    { k \in 1 .. Len(notifications) :
         notifications[k].subject \in {"Order Placed", "Order Failed"} }

BothEstimatesFailed ==
    resp.order_margins.status = "throw" /\ resp.ltp.status = "throw"

\* --------------------------------------------------------------------- C1
\* C1 as stated: when every attempt of an entry fails, the submit sequence
\* ran exactly RETRY_ATTEMPTS times and the outcome is a failure.
C1_Original ==
    (EntryReturned /\ AllAttemptsFailed) =>
        /\ Len(attempt_log) = RETRY_ATTEMPTS
        /\ ~LastResult.success

\* C1 amended: when every attempt of an entry fails, the submit sequence ran
\* exactly RETRY_ATTEMPTS + 1 times (the first attempt and RETRY_ATTEMPTS
\* retries; once for a budget of zero or less) and the outcome is a failure.
C1_Amended ==
    (EntryReturned /\ AllAttemptsFailed) =>
        /\ Len(attempt_log) = Retries + 1
        /\ order_margins_calls = Retries + 1
        /\ margins_calls = Retries + 1
        /\ ~LastResult.success

C1_Witness ==
    /\ EntryReturned /\ AllAttemptsFailed
    /\ RETRY_ATTEMPTS >= 2
    /\ Len(attempt_log) = RETRY_ATTEMPTS + 1

\* --------------------------------------------------------------------- C2
\* C2 as stated: when every attempt fails, the time slept for the entry is
\* (RETRY_ATTEMPTS - 1) * RETRY_DELAY_SECONDS.
C2_Original ==
    (EntryReturned /\ AllAttemptsFailed) =>
        SeqSum(sleep_calls) = (RETRY_ATTEMPTS - 1) * RETRY_DELAY_SECONDS

\* C2 amended: when every attempt fails, the entry slept exactly
\* RETRY_ATTEMPTS times (never for a budget of zero or less), each time for
\* RETRY_DELAY_SECONDS, so RETRY_ATTEMPTS * RETRY_DELAY_SECONDS in total.
C2_Amended ==
    (EntryReturned /\ AllAttemptsFailed) =>
        /\ Len(sleep_calls) = Retries
        /\ \A k \in 1 .. Len(sleep_calls) : sleep_calls[k] = RETRY_DELAY_SECONDS
        /\ SeqSum(sleep_calls) = Retries * RETRY_DELAY_SECONDS

C2_Witness ==
    /\ EntryReturned /\ AllAttemptsFailed
    /\ RETRY_ATTEMPTS >= 2
    /\ RETRY_DELAY_SECONDS = 5
    /\ SeqSum(sleep_calls) = 5 * RETRY_ATTEMPTS

\* --------------------------------------------------------------------- C3
\* C3: with a budget of at least 2, when the first attempt fails and the
\* second succeeds there are exactly 2 attempts and one sleep, place_order
\* has returned, and the outcome is a success with the second attempt's id.
C3_FailThenSucceed ==
    (/\ RETRY_ATTEMPTS >= 2
     /\ Len(attempt_log) >= 2
     /\ attempt_log[1] # "ok"
     /\ attempt_log[2] = "ok") =>
        /\ Len(attempt_log) = 2
        /\ order_margins_calls = 2
        /\ Len(sleep_calls) = 1
        /\ pc \in {"loop", "done"}
        /\ LastResult.success
        /\ place_calls[Len(place_calls)].order_id = <<LastResult.order_id>>

C3_Witness ==
    /\ RETRY_ATTEMPTS >= 2
    /\ attempt_log = <<"broker", "ok">>
    /\ Len(place_calls) = 2
    /\ LastResult.success

\* --------------------------------------------------------------------- C4
\* C4: an attempt in which the guard returned false made no placement call
\* and ended as a failure; an entry whose every attempt was refused by the
\* guard has no placement call and a failure outcome naming the margin.
C4_GuardBlocksPlacement ==
    /\ (returned.guard = <<FALSE>>) =>
          /\ pc # "kite_place"
          /\ attempt_log # <<>>
          /\ LastAttempt = "margin"
    /\ Len(place_calls) =
          Cardinality({ k \in 1 .. Len(attempt_log) : attempt_log[k] # "margin" })
    /\ (EntryReturned /\ \A k \in 1 .. Len(attempt_log) : attempt_log[k] = "margin") =>
          /\ place_calls = <<>>
          /\ ~LastResult.success
          /\ LastResult.error.text = "Insufficient margin"

C4_Witness ==
    /\ EntryReturned
    /\ Len(attempt_log) >= 2
    /\ \A k \in 1 .. Len(attempt_log) : attempt_log[k] = "margin"
    /\ place_calls = <<>>

\* --------------------------------------------------------------------- C5
\* C5 as stated: when order_margins and ltp both fail the estimate is the
\* sentinel and the guard returns false for it, whether margins() succeeds
\* or fails, so the attempt never reaches the placement call.
C5_Original ==
    BothEstimatesFailed =>
        /\ returned.estimate = <<Inf>>
        /\ returned.guard # <<TRUE>>
        /\ pc # "kite_place"

\* C5 amended: when order_margins and ltp both fail the estimate is the
\* sentinel; if margins() succeeds the guard returns false for it whatever
\* the cash, and the attempt makes no placement call; if margins() fails
\* the guard returns true.
C5_Amended ==
    BothEstimatesFailed =>
        /\ returned.estimate = <<Inf>>
        /\ (resp.margins.status = "ok") =>
              /\ returned.guard = <<FALSE>>
              /\ pc # "kite_place"
              /\ LastAttempt = "margin"
        /\ (resp.margins.status = "throw") => returned.guard = <<TRUE>>

C5_Witness ==
    /\ BothEstimatesFailed
    /\ resp.margins = Ok(SetMax(Cash))
    /\ returned.guard = <<FALSE>>
    /\ LastAttempt = "margin"

\* --------------------------------------------------------------------- C6
\* C6: whenever margins() fails the guard returns true and the attempt goes
\* on to the placement call, and a failure outcome of that attempt carries
\* the broker's placement error, never the failed lookup.
C6_GuardFailsOpen ==
    (resp.margins.status = "throw") =>
        /\ returned.guard = <<TRUE>>
        /\ \/ pc = "kite_place"
           \/ attempt_log # <<>> /\ LastAttempt \in {"ok", "broker"}
        /\ (EntryReturned /\ ~LastResult.success) =>
              LastResult.error.text \in BrokerErrors

C6_Witness ==
    /\ resp.margins.status = "throw"
    /\ returned.estimate = <<Inf>>
    /\ EntryReturned
    /\ LastAttempt = "ok"

\* --------------------------------------------------------------------- C7
\* C7: once an attempt of an entry succeeds place_order has returned: the
\* success is the last attempt, no margin lookup, sleep or placement
\* follows it, and at most one placement call per entry returns an id, so
\* the ids issued in a batch are as many as its successful outcomes.
C7_ReturnOnSuccess ==
    /\ (\E k \in 1 .. Len(attempt_log) : attempt_log[k] = "ok") =>
          /\ pc \in {"loop", "done"}
          /\ LastAttempt = "ok"
          /\ \A k \in 1 .. (Len(attempt_log) - 1) : attempt_log[k] # "ok"
          /\ order_margins_calls = Len(attempt_log)
          /\ margins_calls = Len(attempt_log)
          /\ Len(sleep_calls) = Len(attempt_log) - 1
          /\ Len(place_calls) <= Len(attempt_log)
    /\ Cardinality({ k \in 1 .. Len(place_calls) : place_calls[k].order_id # <<>> }) <= 1
    /\ next_order_id - 1 = Cardinality({ k \in 1 .. Len(all_results) : all_results[k].success })
    /\ next_order_id - 1 <= Len(stock_config)

C7_Witness ==
    /\ pc = "done"
    /\ Len(all_results) = 2
    /\ all_results[1].success /\ all_results[2].success
    /\ Len(attempt_log) >= 2
    /\ next_order_id = 3

\* --------------------------------------------------------------------- C8
\* C8: whatever goes wrong for an entry, the batch goes on: a batch that
\* was started over n active entries ends with n outcomes and a summary.
C8_BatchNeverAborts ==
    (is_weekday /\ has_columns /\ pc \in {"done", "crashed"}) =>
        /\ Len(all_results) = Len(stock_config)
        /\ notifications # <<>>
        /\ notifications[Len(notifications)].subject = "Order Placement Summary"

C10_InOrder ==
    /\ Len(all_results) <= Len(stock_config)
    /\ \A k \in 1 .. Len(all_results) :
          /\ all_results[k].symbol = csv_rows[stock_config[k]].trading_symbol
          /\ notifications[k].symbol = csv_rows[stock_config[k]].trading_symbol
    /\ InAttempt =>
          /\ Len(all_results) = i - 1
          /\ Len(notifications) = i - 1
          /\ \A k \in 1 .. Len(place_calls) : place_calls[k].params = OrderParams(Stock)
    /\ EntryReturned =>
          /\ Len(all_results) = i - 1
          /\ \A k \in 1 .. Len(place_calls) :
                place_calls[k].params = OrderParams(csv_rows[stock_config[i - 1]])

C10_Forward ==
    \/ i' = i /\ all_results' = all_results
    \/ /\ i' = i + 1
       /\ Len(all_results') = i
       /\ Len(notifications') = i
       /\ SubSeq(all_results', 1, i - 1) = all_results

\* C10: outcomes and notifications come in the order of the active entries;
\* while an entry is being attempted every earlier entry has its outcome
\* and its notification and no later one has; the broker calls recorded
\* are those of the entry at hand; and the loop only moves forward, one
\* entry at a time, together with that entry's outcome and notification.
C10_Sequential == [](C10_InOrder) /\ [][C10_Forward]_vars

C10_Witness ==
    /\ pc = "done"
    /\ Len(all_results) = 2
    /\ all_results[1].symbol # all_results[2].symbol
    /\ Len(sleep_calls) >= 1

\* -------------------------------------------------------------------- C11
\* C11: only active rows reach place_order: stock_config holds active rows
\* only, each once and in file order, the row being attempted is active,
\* outcomes and individual notifications never outnumber the active rows,
\* and a file with no active row sees no broker call, sleep, outcome or
\* individual notification at all.
C11_InactiveNeverSubmitted ==
    /\ \A k \in 1 .. Len(stock_config) :
          /\ stock_config[k] \in 1 .. Len(csv_rows)
          /\ csv_rows[stock_config[k]].is_active
          /\ \A j \in 1 .. (k - 1) : stock_config[j] < stock_config[k]
    /\ InAttempt => (i \in 1 .. Len(stock_config) /\ Stock.is_active)
    /\ Len(all_results) <=
          Cardinality({ r \in 1 .. Len(csv_rows) : csv_rows[r].is_active })
    /\ Cardinality(IndividualNotifications) = Len(all_results)
    /\ (\A r \in 1 .. Len(csv_rows) : ~csv_rows[r].is_active) =>
          /\ ~InAttempt
          /\ all_results = <<>>
          /\ order_margins_calls = 0 /\ margins_calls = 0
          /\ place_calls = <<>> /\ sleep_calls = <<>>
          /\ resp = NoResponses

C11_Witness ==
    /\ pc = "done"
    /\ Len(csv_rows) = 2
    /\ ~csv_rows[1].is_active
    /\ csv_rows[2].is_active
    /\ Len(all_results) = 1
    /\ Len(notifications) = 2

\* -------------------------------------------------------------------- C12
\* C12: when order_margins raised and ltp returned a price, the key asked
\* of ltp is the request's exchange:symbol and the estimate is that price
\* times the quantity of the entry.
C12_FallbackIsPriceTimesQuantity ==
    (resp.order_margins.status = "throw" /\ resp.ltp.status = "ok") =>
        LET symbol == EntryAtHand.trading_symbol
        IN  /\ returned.estimate = <<resp.ltp.v * EntryAtHand.quantity.v>>
            /\ resp.ltp_key =
                  <<IF HasColon(symbol) THEN symbol
                    ELSE <<"N", "S", "E", ":">> \o symbol>>

C12_Witness ==
    /\ resp.order_margins.status = "throw"
    /\ resp.ltp = Ok(3)
    /\ EntryAtHand.quantity.v = 2
    /\ returned.estimate = <<6>>

\* -------------------------------------------------------------------- C13
\* C13: when margins() succeeded and the estimate is finite, the guard
\* returned true exactly when the cash is at least the estimate; on true the
\* attempt goes on to the placement call, on false it ends refused.
C13_GuardComparesCash ==
    (resp.margins.status = "ok" /\ returned.estimate # <<Inf>>) =>
        /\ returned.guard = <<resp.margins.v >= returned.estimate[1]>>
        /\ (resp.margins.v >= returned.estimate[1]) =>
              (pc = "kite_place" \/ LastAttempt \in {"ok", "broker"})
        /\ (resp.margins.v < returned.estimate[1]) => LastAttempt = "margin"

C13_Witness ==
    /\ resp.margins.status = "ok"
    /\ returned.estimate = <<resp.margins.v>>
    /\ returned.guard = <<TRUE>>
    /\ pc = "kite_place"

\* -------------------------------------------------------------------- C14
\* C14: when stocks.csv lacks a required column the run loads it once only,
\* never enters place_order, makes no broker call, records no outcome, and
\* ends with exactly one notification, the configuration ERROR.
C14_ConfigErrorIsFatal ==
    (~has_columns) =>
        /\ pc \in {"start", "load", "done"}
        /\ load_calls <= 1
        /\ stock_config = <<>> /\ all_results = <<>>
        /\ order_margins_calls = 0 /\ margins_calls = 0
        /\ place_calls = <<>> /\ sleep_calls = <<>>
        /\ resp = NoResponses /\ next_order_id = 1
        /\ (pc = "done" /\ is_weekday) =>
              /\ load_calls = 1
              /\ notifications =
                    <<[subject |-> "Stock Configuration Error", level |-> "ERROR"]>>
        /\ (pc # "done") => notifications = <<>>

C14_Witness ==
    /\ ~has_columns
    /\ pc = "done"
    /\ load_calls = 1
    /\ Len(csv_rows) = 2
    /\ csv_rows[1].is_active /\ csv_rows[2].is_active
    /\ Len(notifications) = 1

\* -------------------------------------------------------------------- C15
\* C15: the request built for a symbol EXCHANGE:SYMBOL has that exchange and
\* that tradingsymbol (NFO and RELIANCE for NFO:RELIANCE); for a symbol
\* without a colon it has the whole symbol and the exchange NSE.  The same
\* holds of every request handed to kite.place_order.
C15_Parsed(symbol, params) ==
    /\ IF HasColon(symbol)
       THEN /\ params.exchange \o <<":">> \o params.tradingsymbol = symbol
            /\ ~HasColon(params.exchange)
            /\ ~HasColon(params.tradingsymbol)
       ELSE /\ params.tradingsymbol = symbol
            /\ params.exchange = <<"N", "S", "E">>
    /\ (symbol = <<"N", "F", "O", ":", "R", "E", "L", "I", "A", "N", "C", "E">>) =>
          /\ params.exchange = <<"N", "F", "O">>
          /\ params.tradingsymbol = <<"R", "E", "L", "I", "A", "N", "C", "E">>

\* C15: symbol parsing, see C15_Parsed: it holds of the request of the
\* attempt under way and of every request handed to kite.place_order.
C15_SymbolParsing ==
    /\ InAttempt => C15_Parsed(Stock.trading_symbol, order_params[1])
    /\ \A k \in 1 .. Len(place_calls) :
          C15_Parsed(EntryAtHand.trading_symbol, place_calls[k].params)

C15_Witness ==
    /\ Len(all_results) = 1
    /\ all_results[1].symbol = <<"I", "N", "F", "Y">>
    /\ all_results[1].success
    /\ pc = "kite_place"
    /\ order_params[1].exchange = <<"N", "F", "O">>
    /\ order_params[1].tradingsymbol = <<"R", "E", "L", "I", "A", "N", "C", "E">>

\* -------------------------------------------------------------------- C16
\* C16: every outcome carries the symbol of its entry, an order id exactly
\* when it is a success and an error exactly when it is a failure, and a
\* batch that was started ends with exactly one outcome per active entry.
C16_OneWellFormedOutcomePerEntry ==
    /\ Len(all_results) <= Len(stock_config)
    /\ \A k \in 1 .. Len(all_results) :
          /\ "symbol" \in DOMAIN all_results[k]
          /\ all_results[k].symbol = csv_rows[stock_config[k]].trading_symbol
          /\ ("order_id" \in DOMAIN all_results[k]) <=> all_results[k].success
          /\ ("error" \in DOMAIN all_results[k]) <=> ~all_results[k].success
    /\ (is_weekday /\ has_columns /\ pc \in {"done", "crashed"}) =>
          Len(all_results) = Len(stock_config)

\* -------------------------------------------------------------------- C17
\* C17: whatever made the earlier attempts of an entry fail, the guard or
\* the broker, each of them took one off the remaining budget and was
\* followed by one sleep of RETRY_DELAY_SECONDS, and a failure outcome is
\* returned only once the whole budget is spent.
C17_FailuresConsumeBudgetAlike ==
    /\ InAttempt =>
          /\ retry_attempts = RETRY_ATTEMPTS - Len(attempt_log)
          /\ Len(sleep_calls) = Len(attempt_log)
          /\ \A k \in 1 .. Len(sleep_calls) : sleep_calls[k] = RETRY_DELAY_SECONDS
    /\ (EntryReturned /\ ~LastResult.success) =>
          /\ Len(attempt_log) = Retries + 1
          /\ Len(sleep_calls) = Retries

C17_Witness ==
    /\ EntryReturned
    /\ attempt_log = <<"margin", "ok">>
    /\ LastResult.success
    /\ sleep_calls = <<RETRY_DELAY_SECONDS>>
    /\ Len(place_calls) = 1

\* -------------------------------------------------------------------- C18
\* C18: every attempt makes its own order_margins call and its own
\* margins() call before any placement call: an attempt starts with no
\* estimate, and the calls made keep step with the attempts.
C18_MarginCheckedEachAttempt ==
    /\ (pc = "check_margin") =>
          /\ margin_required = <<>>
          /\ order_margins_calls = Len(attempt_log)
          /\ margins_calls = Len(attempt_log)
    /\ (pc = "has_margin") =>
          /\ margin_required = returned.estimate
          /\ resp.margins = NoResp
          /\ order_margins_calls = Len(attempt_log) + 1
          /\ margins_calls = Len(attempt_log)
    /\ (pc = "kite_place") =>
          /\ order_margins_calls = Len(attempt_log) + 1
          /\ margins_calls = Len(attempt_log) + 1
          /\ resp.margins # NoResp
    /\ EntryReturned =>
          /\ order_margins_calls = Len(attempt_log)
          /\ margins_calls = Len(attempt_log)
    /\ Len(place_calls) <= margins_calls
    /\ margins_calls <= order_margins_calls

C18_Witness ==
    /\ pc = "kite_place"
    /\ attempt_log = <<"margin">>
    /\ order_margins_calls = 2
    /\ margins_calls = 2
    /\ resp.margins.status = "ok"
    /\ returned.guard = <<TRUE>>

\* -------------------------------------------------------------------- C19
\* C19: a failure outcome is returned once the budget is spent and is the
\* failure of the last attempt: the guard's refusal with that attempt's
\* estimate, or the exception the broker raised in that attempt.
C19_LastFailureReturned ==
    (EntryReturned /\ ~LastResult.success) =>
        /\ Len(attempt_log) = Retries + 1
        /\ LastResult =
              [success |-> FALSE,
               symbol |-> EntryAtHand.trading_symbol,
               error |-> IF LastAttempt = "margin"
                         THEN [text |-> "Insufficient margin",
                               symbol |-> EntryAtHand.trading_symbol,
                               required |-> returned.estimate[1]]
                         ELSE [text |-> resp.place.error]]

C19_Witness ==
    /\ EntryReturned
    /\ attempt_log = <<"margin", "broker">>
    /\ ~LastResult.success
    /\ LastResult.error = [text |-> "InputException"]

\* -------------------------------------------------------------------- C20
\* C20: whenever the order_margins call fails, a response without a total
\* included, the estimator asks ltp and returns price times quantity (or
\* the sentinel); the broker's total is the estimate only when the call
\* succeeded and reported one.
C20_FallbackOnAnyFailure ==
    /\ (resp.order_margins.status \in {"throw", "no_total"}) =>
          /\ resp.ltp.status # "none"
          /\ (resp.ltp.status = "ok") =>
                returned.estimate = <<resp.ltp.v * EntryAtHand.quantity.v>>
    /\ (resp.ltp.status = "none" /\ returned.estimate # <<>>) =>
          /\ resp.order_margins.status = "ok"
          /\ returned.estimate = <<resp.order_margins.v>>

\* -------------------------------------------------------------------- C21
C21_Value ==
    (returned.estimate # <<>>) =>
        returned.estimate =
            <<IF resp.order_margins.status = "ok" THEN resp.order_margins.v
              ELSE IF resp.order_margins.status = "no_total" THEN 0
              ELSE IF resp.ltp.status = "ok"
                   THEN resp.ltp.v * EntryAtHand.quantity.v
              ELSE Inf>>

C21_Step ==
    (pc = "check_margin") =>
        /\ pc' = "has_margin"
        /\ margin_required' # <<>>
        /\ returned'.estimate = margin_required'
        /\ attempt_log' = attempt_log
        /\ sleep_calls' = sleep_calls
        /\ all_results' = all_results

\* C21: _check_margin_required never raises: whatever order_margins and ltp
\* answer, the step of the estimator ends with an estimate handed to the
\* guard (the total, 0 for a response without one, price times quantity, or
\* the sentinel) and never in the except block of place_order.
C21_EstimatorNeverRaises == [](C21_Value) /\ [][C21_Step]_vars

C21_Witness ==
    /\ pc = "has_margin"
    /\ BothEstimatesFailed
    /\ margin_required = <<Inf>>
    /\ attempt_log = <<>>

\* -------------------------------------------------------------------- C22
C22_Derived(stock, params) ==
    /\ params.transaction_type = "BUY"
    /\ params.product = "CNC"
    /\ params.quantity = stock.quantity.v
    /\ params.order_type = stock.order_type
    /\ (stock.order_type # "LIMIT") =>
          DOMAIN params = {"tradingsymbol", "exchange", "transaction_type",
                           "quantity", "product", "order_type"}
    /\ (/\ stock.order_type = "LIMIT"
        /\ stock.limit_price.kind = "num"
        /\ stock.limit_price.v > 0) =>
          /\ DOMAIN params = {"tradingsymbol", "exchange", "transaction_type",
                              "quantity", "product", "order_type", "price"}
          /\ params.price = stock.limit_price

C22_Requests ==
    /\ \A k \in 1 .. Len(place_calls) :
          /\ C22_Derived(EntryAtHand, place_calls[k].params)
          /\ place_calls[k].params = place_calls[1].params
    /\ (pc = "kite_place") => C22_Derived(Stock, order_params[1])

\* C22: at all times every request handed to kite.place_order is BUY and CNC,
\* has the quantity and the order type of its entry, has no price when the
\* entry is not a LIMIT order and has the entry's limit price when it is one
\* with a positive limit price; all the requests of an entry are the same.
C22_RequestFromEntry == [](C22_Requests)

C22_Witness ==
    /\ pc = "kite_place"
    /\ Stock.order_type = "LIMIT"
    /\ Len(place_calls) = 1
    /\ place_calls[1].params.price = Num(2)
    /\ Len(all_results) = 1
    /\ all_results[1].success

\* -------------------------------------------------------------------- C23
C23_Skipped ==
    (~is_weekday) =>
        /\ pc \in {"start", "done"}
        /\ load_calls = 0
        /\ stock_config = <<>> /\ all_results = <<>>
        /\ notifications = <<>>
        /\ order_margins_calls = 0 /\ margins_calls = 0
        /\ place_calls = <<>> /\ sleep_calls = <<>>
        /\ resp = NoResponses /\ next_order_id = 1

\* C23: on a weekend the run ends at once: at no time is the watchlist
\* loaded, a broker call or a sleep made, an outcome recorded or a
\* notification of any kind sent.
C23_WeekendSkipsBatch == [](C23_Skipped)

C23_Witness ==
    /\ ~is_weekday
    /\ pc = "done"
    /\ has_columns
    /\ Len(csv_rows) = 2
    /\ csv_rows[1].is_active /\ csv_rows[2].is_active
    /\ ~ParseRaises(csv_rows[1])

\* -------------------------------------------------------------------- C24
\* C24: place_order makes at most RETRY_ATTEMPTS + 1 attempts (exactly one
\* for a budget of zero or less) and then returns, so a batch that was
\* started has, once it has stopped, one outcome per active entry and its
\* summary sent.
C24_BatchRunsToCompletion ==
    /\ Len(attempt_log) <= Retries + 1
    /\ InAttempt => Len(attempt_log) <= Retries
    /\ (EntryReturned /\ RETRY_ATTEMPTS <= 0) => Len(attempt_log) = 1
    /\ (is_weekday /\ has_columns /\ ~ENABLED Next) =>
          /\ pc = "done"
          /\ Len(all_results) = Len(stock_config)
          /\ notifications[Len(notifications)].subject = "Order Placement Summary"

\* -------------------------------------------------------------------- C25
C25_Counts ==
    /\ InAttempt => Len(sleep_calls) = Len(attempt_log)
    /\ EntryReturned => Len(sleep_calls) = Len(attempt_log) - 1

C25_Step ==
    (sleep_calls' # sleep_calls /\ sleep_calls' # <<>>) =>
        /\ Len(sleep_calls') = Len(sleep_calls) + 1
        /\ Len(attempt_log') = Len(attempt_log) + 1
        /\ attempt_log'[Len(attempt_log')] # "ok"
        /\ pc' = "check_margin"
        /\ all_results' = all_results

\* C25: an entry has slept once per attempt made before the one under way,
\* and one time less than its attempts once place_order has returned; each
\* sleep is taken in the step that ends a failed attempt and starts the
\* next one, never in the step that returns the outcome.
C25_SleepsBetweenAttempts == [](C25_Counts) /\ [][C25_Step]_vars

C25_Witness ==
    /\ EntryReturned
    /\ Len(attempt_log) = 3
    /\ Len(sleep_calls) = 2
    /\ LastAttempt = "ok"

====
